---- MODULE Spec2Model ----
(***************************************************************************)
(* Home.py: the Streamlit page of the SAR image colorisation dashboard.    *)
(* One script run is the sequence of statements of the module body; the    *)
(* session state and the widget values survive from one run to the next.   *)
(* A run is started by one user event (upload, button click, slider move,  *)
(* download click) and walks the script top to bottom.                     *)
(*                                                                         *)
(* Pixel values are counted in halves (level p stands for p / 2, so the    *)
(* levels -2 .. 2 cover [-1, 1]); slider values in hundredths.  All values *)
(* of this grid and of the products below are exact in binary floating     *)
(* point up to the factor 1/400, which is applied to every pixel alike.    *)
(***************************************************************************)
EXTENDS Integers, Sequences, FiniteSets, TLC

\* ---------------------------------------------------------------- bounds
NumFiles == 3
NumPixels == 2

\* ------------------------------------------------------------- constants
PixelScale == 2
SliderScale == 100
SliderMin == 0
SliderMax == 100
SliderDefault == 50
SliderStep == 25

VARIABLES
    session_state,      \* [processed, src, gen, tar]
    src_image,          \* value of the source file_uploader
    tar_image,          \* value of the target file_uploader
    clicked,            \* return value of st.button("Process Images") in this run
    comparison_value,   \* value of the comparison slider widget
    locals,             \* fig, ssim_value, psnr_value, src, gen, tar of this run
    pc,                 \* position of the script
    rendered,           \* elements shown by this run, in order
    called,             \* number of process_images calls of this run
    args,               \* arguments of the process_images call of this run
    pre,                \* session state when this run started
    prev_outcome        \* how the previous run ended

vars == <<session_state, src_image, tar_image, clicked, comparison_value,
          locals, pc, rendered, called, args, pre, prev_outcome>>

\* ------------------------------------------------------------------ data
NoneArr == <<>>
NoneFile == [fmt |-> "none", px |-> <<>>]

PixelLevels == (0 - PixelScale) .. PixelScale

\* The files a user can upload: png and jpg files of different content.
File(id) ==
    [fmt |-> IF id % 2 = 1 THEN "png" ELSE "jpg",
     px  |-> [i \in 1 .. NumPixels |-> ((id + 2 * i) % (2 * PixelScale + 1)) - PixelScale]]

Files == {File(id) : id \in 1 .. NumFiles}

SliderValues == {v \in SliderMin .. SliderMax : (v - SliderMin) % SliderStep = 0}

NoLocals ==
    [fig |-> <<>>, ssim_value |-> 0, psnr_value |-> 0,
     src |-> NoneArr, gen |-> NoneArr, tar |-> NoneArr]

InitialSessionState ==
    [processed |-> FALSE, src |-> NoneArr, gen |-> NoneArr, tar |-> NoneArr]

\* The external colorisation module: arrays with values in [-1, 1].
Colorize(px) ==
    [i \in DOMAIN px |-> ((px[i] + PixelScale + 1) % (2 * PixelScale + 1)) - PixelScale]

process_images(s, t) ==
    [fig        |-> <<s.px, Colorize(s.px), t.px>>,
     ssim_value |-> Cardinality({i \in DOMAIN s.px : Colorize(s.px)[i] = t.px[i]}),
     psnr_value |-> Cardinality({i \in DOMAIN s.px : Colorize(s.px)[i] # t.px[i]}),
     src        |-> s.px,
     gen        |-> Colorize(s.px),
     tar        |-> t.px]

\* (a + 1) / 2, in units of 1 / (2 * PixelScale)
Normalise(a) == [i \in DOMAIN a |-> a[i] + PixelScale]

\* ((gen + 1) / 2 * 255).astype(np.uint8): the cast truncates
ToUint8(a) == [i \in DOMAIN a |-> (Normalise(a)[i] * 255) \div (2 * PixelScale)]

\* ndarray.tobytes(): the raw bytes of the array, no image container
tobytes(a) == [fmt |-> "raw", px |-> a]

\* the weights of the two images exchanged
Blend_swapped(s, g, v) ==
    [i \in DOMAIN s |->
        Normalise(s)[i] * v + Normalise(g)[i] * (SliderScale - v)]

\* ((src + 1) / 2) * (1 - v) + ((gen + 1) / 2) * v,
\* in units of 1 / (2 * PixelScale * SliderScale)
Blend(s, g, v) ==
    [i \in DOMAIN s |->
        Normalise(s)[i] * (SliderScale - v) + Normalise(g)[i] * v]

\* f"{v:.0%}": the percentage rounded to an integer, halves to even
PercentText(v) ==
    LET q == (v * 100) \div SliderScale
        r == (v * 100) % SliderScale
    IN  IF 2 * r > SliderScale \/ (2 * r = SliderScale /\ q % 2 = 1)
        THEN q + 1 ELSE q

Element(kind, val) == [kind |-> kind, val |-> val]

RECURSIVE Kinds(_)
Kinds(seq) ==
    IF seq = <<>> THEN <<>>
    ELSE <<Head(seq).kind>> \o Kinds(Tail(seq))

Shown(kind) == \E i \in 1 .. Len(rendered) : rendered[i].kind = kind

RunEnded == pc \in {"done", "aborted"}
BetweenRuns == pc \in {"idle", "done", "aborted"}

\* ------------------------------------------------------------------ init
\* lines 12-19: the four keys get their defaults the first time
Init ==
    /\ session_state = InitialSessionState
    /\ src_image = NoneFile
    /\ tar_image = NoneFile
    /\ clicked = FALSE
    /\ comparison_value = SliderDefault
    /\ locals = NoLocals
    /\ pc = "idle"
    /\ rendered = <<>>
    /\ called = 0
    /\ args = <<NoneFile, NoneFile>>
    /\ pre = InitialSessionState
    /\ prev_outcome = "none"

\* ---------------------------------------------------------------- events
\* A widget event reruns the script from the top.  A widget that the last
\* run did not render has lost its value and starts from its default.
StartRun(s, t, click, v) ==
    /\ BetweenRuns
    /\ src_image' = s
    /\ tar_image' = t
    /\ clicked' = click
    /\ comparison_value' = v
    /\ locals' = NoLocals
    /\ pc' = "upload_guard"
    /\ rendered' = <<>>
    /\ called' = 0
    /\ args' = <<NoneFile, NoneFile>>
    /\ pre' = session_state
    /\ prev_outcome' = pc
    /\ UNCHANGED session_state

KeptSlider == IF Shown("slider") THEN comparison_value ELSE SliderDefault

UploadSource ==
    \E f \in Files \cup {NoneFile} :
        /\ f # src_image
        /\ StartRun(f, tar_image, FALSE, KeptSlider)

UploadTarget ==
    \E f \in Files \cup {NoneFile} :
        /\ f # tar_image
        /\ StartRun(src_image, f, FALSE, KeptSlider)

ClickProcess ==
    /\ Shown("button")
    /\ StartRun(src_image, tar_image, TRUE, KeptSlider)

MoveSlider ==
    /\ Shown("slider")
    /\ \E v \in SliderValues :
        /\ v # comparison_value
        /\ StartRun(src_image, tar_image, FALSE, v)

ClickDownload ==
    /\ Shown("downloads")
    /\ StartRun(src_image, tar_image, FALSE, KeptSlider)

\* ------------------------------------------------------------ script run
Render(kind, val, next) ==
    /\ rendered' = Append(rendered, Element(kind, val))
    /\ pc' = next

\* 'or' in place of 'and' in the upload guard
UploadGuard_or ==
    /\ pc = "upload_guard"
    /\ pc' = IF src_image # NoneFile \/ tar_image # NoneFile
             THEN "process_guard" ELSE "info"
    /\ UNCHANGED <<session_state, src_image, tar_image, clicked,
                   comparison_value, locals, rendered, called, args, pre,
                   prev_outcome>>

\* line 47 / line 148
UploadGuard ==
    /\ pc = "upload_guard"
    /\ pc' = IF src_image # NoneFile /\ tar_image # NoneFile
             THEN "process_guard" ELSE "info"
    /\ UNCHANGED <<session_state, src_image, tar_image, clicked,
                   comparison_value, locals, rendered, called, args, pre,
                   prev_outcome>>

\* 'and' in place of 'or' in the processing guard
ProcessGuard_and ==
    /\ pc = "process_guard"
    /\ Render("button", clicked,
              IF clicked /\ ~session_state.processed THEN "call" ELSE "slider")
    /\ UNCHANGED <<session_state, src_image, tar_image, clicked,
                   comparison_value, locals, called, args, pre, prev_outcome>>

\* line 48: the button is rendered, then the condition decides
ProcessGuard ==
    /\ pc = "process_guard"
    /\ Render("button", clicked,
              IF clicked \/ ~session_state.processed THEN "call" ELSE "slider")
    /\ UNCHANGED <<session_state, src_image, tar_image, clicked,
                   comparison_value, locals, called, args, pre, prev_outcome>>

\* line 50, the call returns
CallReturns ==
    /\ pc = "call"
    /\ called' = called + 1
    /\ args' = <<src_image, tar_image>>
    /\ locals' = process_images(src_image, tar_image)
    /\ pc' = "store"
    /\ UNCHANGED <<session_state, src_image, tar_image, clicked,
                   comparison_value, rendered, pre, prev_outcome>>

\* the processed flag set ahead of the call, so that a failure leaves it set
CallFails_flagFirst ==
    /\ pc = "call"
    /\ called' = called + 1
    /\ args' = <<src_image, tar_image>>
    /\ session_state' = [session_state EXCEPT !.processed = TRUE]
    /\ Render("exception", <<>>, "aborted")
    /\ UNCHANGED <<src_image, tar_image, clicked, comparison_value, locals,
                   pre, prev_outcome>>

\* line 50, the call raises: nothing catches it, the run ends
CallFails ==
    /\ pc = "call"
    /\ called' = called + 1
    /\ args' = <<src_image, tar_image>>
    /\ Render("exception", <<>>, "aborted")
    /\ UNCHANGED <<session_state, src_image, tar_image, clicked,
                   comparison_value, locals, pre, prev_outcome>>

\* the write of st.session_state.tar forgotten
Store_partial ==
    /\ pc = "store"
    /\ session_state' = [processed |-> TRUE, src |-> locals.src,
                         gen |-> locals.gen, tar |-> session_state.tar]
    /\ pc' = "figure"
    /\ UNCHANGED <<src_image, tar_image, clicked, comparison_value, locals,
                   rendered, called, args, pre, prev_outcome>>

\* lines 52-55
Store ==
    /\ pc = "store"
    /\ session_state' = [processed |-> TRUE, src |-> locals.src,
                         gen |-> locals.gen, tar |-> locals.tar]
    /\ pc' = "figure"
    /\ UNCHANGED <<src_image, tar_image, clicked, comparison_value, locals,
                   rendered, called, args, pre, prev_outcome>>

RenderOnly == UNCHANGED <<session_state, src_image, tar_image, clicked,
                          comparison_value, locals, called, args, pre,
                          prev_outcome>>

\* line 57
RenderFigure ==
    /\ pc = "figure"
    /\ Render("figure", locals.fig, "metrics")
    /\ RenderOnly

\* lines 59-66
RenderMetrics ==
    /\ pc = "metrics"
    /\ Render("metrics", <<locals.ssim_value, locals.psnr_value>>, "histograms")
    /\ RenderOnly

\* the histogram figure built but never shown
RenderHistograms_skipped ==
    /\ pc = "histograms"
    /\ pc' = "difference"
    /\ UNCHANGED rendered
    /\ RenderOnly

\* lines 68-75
RenderHistograms ==
    /\ pc = "histograms"
    /\ Render("histograms",
              <<Normalise(locals.src), Normalise(locals.gen), Normalise(locals.tar)>>,
              "difference")
    /\ RenderOnly

\* lines 77-91
RenderDifferenceMap ==
    /\ pc = "difference"
    /\ Render("difference", <<Normalise(locals.tar), Normalise(locals.gen)>>,
              "color_channels")
    /\ RenderOnly

\* lines 93-97
RenderColorChannels ==
    /\ pc = "color_channels"
    /\ Render("color_channels", <<Normalise(locals.gen), Normalise(locals.tar)>>,
              "lab")
    /\ RenderOnly

\* lines 99-108
RenderLab ==
    /\ pc = "lab"
    /\ Render("lab", <<Normalise(locals.gen), Normalise(locals.tar)>>, "downloads")
    /\ RenderOnly

DownloadButton(label, data, file_name, mime) ==
    [label |-> label, data |-> data, file_name |-> file_name, mime |-> mime]

\* lines 110-136
RenderDownloads ==
    /\ pc = "downloads"
    /\ Render("downloads",
              <<DownloadButton("Download Source Image", src_image,
                               "source_image.png", "image/png"),
                DownloadButton("Download Generated Image",
                               tobytes(ToUint8(locals.gen)),
                               "generated_image.png", "image/png"),
                DownloadButton("Download Target Image", tar_image,
                               "target_image.png", "image/png")>>,
              "slider")
    /\ RenderOnly

\* lines 139-146
ComparisonSlider ==
    /\ pc = "slider"
    /\ IF session_state.processed
       THEN Render("slider",
                   [value   |-> comparison_value,
                    image   |-> Blend(session_state.src, session_state.gen,
                                      comparison_value),
                    caption |-> PercentText(comparison_value)],
                   "footer")
       ELSE /\ pc' = "footer"
            /\ UNCHANGED rendered
    /\ RenderOnly

\* line 149
UploadInfo ==
    /\ pc = "info"
    /\ Render("info", <<>>, "footer")
    /\ RenderOnly

\* lines 152-153
Footer ==
    /\ pc = "footer"
    /\ Render("footer", <<>>, "done")
    /\ RenderOnly

Next ==
    \/ UploadSource
    \/ UploadTarget
    \/ ClickProcess
    \/ MoveSlider
    \/ ClickDownload
    \/ UploadGuard
    \/ ProcessGuard
    \/ CallReturns
    \/ CallFails
    \/ Store
    \/ RenderFigure
    \/ RenderMetrics
    \/ RenderHistograms
    \/ RenderDifferenceMap
    \/ RenderColorChannels
    \/ RenderLab
    \/ RenderDownloads
    \/ ComparisonSlider
    \/ UploadInfo
    \/ Footer

Spec == Init /\ [][Next]_vars

\* ---------------------------------------------------------------- claims
ResultKinds ==
    {"figure", "metrics", "histograms", "difference", "color_channels",
     "lab", "downloads"}

ExpectedOrder ==
    <<"button", "figure", "metrics", "histograms", "difference",
      "color_channels", "lab", "downloads", "slider", "footer">>

DownloadLabels ==
    <<"Download Source Image", "Download Generated Image",
      "Download Target Image">>

IsPrefix(a, b) == Len(a) <= Len(b) /\ a = SubSeq(b, 1, Len(a))

BothUploaded == src_image # NoneFile /\ tar_image # NoneFile

Returned == called = 1 /\ locals # NoLocals

\* C1: in a run in which process_images was called and returned, what is
\* shown after the button is, in this order, the comparison figure, the
\* metrics, the histograms, the difference map, the colour channels, the LAB
\* plots, the three download buttons (source, generated, target) and last
\* the comparison slider; a run that completes has shown all of them.
C1_RenderOrder ==
    Returned =>
        /\ IsPrefix(Kinds(rendered), ExpectedOrder)
        /\ pc = "done" => Kinds(rendered) = ExpectedOrder
        /\ \A i \in 1 .. Len(rendered) :
              rendered[i].kind = "downloads" =>
                  [j \in 1 .. 3 |-> rendered[i].val[j].label] = DownloadLabels

C1_Witness ==
    /\ pc = "done"
    /\ Returned
    /\ Shown("slider")
    /\ Shown("downloads")

\* C2: a completed run that started with processed = True and has both files
\* uploaded shows the plots, the metrics and the download buttons.
C2_ResultsStayVisible ==
    (pc = "done" /\ pre.processed /\ BothUploaded) =>
        \A k \in ResultKinds : Shown(k)

\* C3: process_images is called only in a run in which the 'Process Images'
\* button was clicked.
C3_CallOnlyOnClick == called > 0 => clicked

\* C4: a run in which process_images raised has called it once, shows no
\* result and no slider, and leaves the session state as it was when the run
\* started; the run that follows an aborted one, with both files uploaded and
\* processed still False, calls process_images again with those files.
C4_FailureLeavesState ==
    /\ pc = "aborted" =>
          /\ called = 1
          /\ session_state = pre
          /\ \A k \in ResultKinds \cup {"slider"} : ~Shown(k)
    /\ (RunEnded /\ prev_outcome = "aborted" /\ BothUploaded /\ ~pre.processed) =>
          /\ called = 1
          /\ args = <<src_image, tar_image>>

C4_Witness ==
    /\ pc = "aborted"
    /\ prev_outcome = "aborted"
    /\ ~pre.processed
    /\ called = 1

\* C5: every download button delivers a file of the kind its name and MIME
\* type announce (png); source and target are the uploaded files unchanged,
\* the generated image is the uint8 image encoded as PNG.
C5_DownloadsAreImages ==
    \A i \in 1 .. Len(rendered) :
        rendered[i].kind = "downloads" =>
            /\ \A j \in 1 .. 3 : rendered[i].val[j].data.fmt = "png"
            /\ rendered[i].val[1].data = src_image
            /\ rendered[i].val[3].data = tar_image
            /\ rendered[i].val[2].data =
                   [fmt |-> "png", px |-> ToUint8(locals.gen)]

\* C6: in a run with the source or the target file missing, process_images
\* is not called, no button, slider or result is shown, the session state
\* stays what it was at the start of the run, and the completed run has
\* shown the upload message only (and the page footer).
C6_MissingFile ==
    ~BothUploaded =>
        /\ called = 0
        /\ session_state = pre
        /\ \A k \in ResultKinds \cup {"button", "slider", "exception"} : ~Shown(k)
        /\ pc = "done" => Kinds(rendered) = <<"info", "footer">>

C6_Witness ==
    /\ pc = "done"
    /\ src_image # NoneFile
    /\ tar_image = NoneFile
    /\ pre.processed
    /\ Shown("info")

\* C7: a run calls process_images once if both files are uploaded and (the
\* button was clicked or processed was False at the start), else not at all;
\* the call gets the files of this run; once it has returned, nothing of the
\* results is shown before processed, src, gen and tar hold True and the
\* three returned arrays.
C7_CallCount ==
    /\ called <= 1
    /\ RunEnded =>
          called = IF BothUploaded /\ (clicked \/ ~pre.processed) THEN 1 ELSE 0
    /\ called = 1 => args = <<src_image, tar_image>>
    /\ pc = "store" => \A k \in ResultKinds \cup {"slider"} : ~Shown(k)
    /\ (\E k \in ResultKinds : Shown(k)) =>
          /\ Returned
          /\ session_state = [processed |-> TRUE, src |-> locals.src,
                              gen |-> locals.gen, tar |-> locals.tar]

C7_Witness ==
    /\ pc = "done"
    /\ called = 1
    /\ clicked
    /\ pre.processed
    /\ session_state # pre

\* C8: the session state is either the initial one (processed False, the
\* three buffers None) or processed True with three buffers; at the end of
\* a run processed is True iff the three buffers are there, and a run that
\* started with processed True does not end with processed False.
C8_StateShape ==
    /\ \/ session_state = InitialSessionState
       \/ /\ session_state.processed
          /\ session_state.src # NoneArr
          /\ session_state.gen # NoneArr
          /\ session_state.tar # NoneArr
    /\ BetweenRuns =>
          (session_state.processed <=>
              /\ session_state.src # NoneArr
              /\ session_state.gen # NoneArr
              /\ session_state.tar # NoneArr)
    /\ pre.processed => session_state.processed

C8_Witness ==
    /\ pc = "aborted"
    /\ session_state.processed
    /\ session_state.tar # NoneArr

\* C9: the buffers the comparison slider blends are those process_images
\* returns for the files uploaded in this run.
C9_SliderShowsCurrentFiles ==
    Shown("slider") =>
        /\ session_state.src = process_images(src_image, tar_image).src
        /\ session_state.gen = process_images(src_image, tar_image).gen

BlendUnit == 2 * PixelScale * SliderScale

Min(a, b) == IF a <= b THEN a ELSE b
Max(a, b) == IF a <= b THEN b ELSE a

\* C10: the image of the comparison slider at value v is src at v = 0, gen
\* at v = 1, moves linearly from the one to the other, lies between the two
\* and within [0, 1] at every pixel; the caption is v in percent; the slider
\* starts at 0.5.
C10_SliderBlend ==
    \A k \in 1 .. Len(rendered) :
        rendered[k].kind = "slider" =>
            LET v == rendered[k].val.value
                img == rendered[k].val.image
                s == session_state.src
                g == session_state.gen
            IN  /\ v \in SliderMin .. SliderMax
                /\ ~pre.processed => v = SliderDefault
                /\ rendered[k].val.caption * SliderScale = v * 100
                /\ DOMAIN img = DOMAIN s
                /\ \A i \in DOMAIN img :
                      /\ img[i] \in 0 .. BlendUnit
                      /\ v = SliderMin => img[i] = SliderScale * (s[i] + PixelScale)
                      /\ v = SliderMax => img[i] = SliderScale * (g[i] + PixelScale)
                      /\ img[i] - SliderScale * (s[i] + PixelScale) = v * (g[i] - s[i])
                      /\ img[i] >= SliderScale * (Min(s[i], g[i]) + PixelScale)
                      /\ img[i] <= SliderScale * (Max(s[i], g[i]) + PixelScale)

C10_Witness ==
    \E k \in 1 .. Len(rendered) :
        /\ rendered[k].kind = "slider"
        /\ rendered[k].val.value \notin {SliderMin, SliderDefault, SliderMax}
        /\ \E i \in DOMAIN session_state.src :
              session_state.src[i] # session_state.gen[i]

====
